---- MODULE Spec2Model ----
(***************************************************************************)
(* contacts-tui: the contact lifecycle model (Contact.IsOverdue) and the   *)
(* mutation protocol of the storage layer (internal/db/db.go) over the     *)
(* schema of internal/db (contacts, contact_interactions).                 *)
(* Further: the backend choice of the task manager (internal/tasks) and    *)
(* the key handlers of the TUI (internal/tui/app.go) over that storage.    *)
(*                                                                         *)
(* Time is an integer number of ticks; TicksPerDay ticks make one day.     *)
(* CURRENT_TIMESTAMP and time.Now() both read the clock `now`.             *)
(***************************************************************************)
EXTENDS Integers, Sequences, FiniteSets, TLC

VARIABLES
    contacts,       \* table contacts: id -> row
    logs,           \* table contact_interactions: id -> row
    nextContactID,  \* AUTOINCREMENT of contacts.id
    nextLogID,      \* AUTOINCREMENT of contact_interactions.id
    now,            \* the wall clock
    err,            \* the error returned by the last storage call: "" (nil) or "error"
    arg,            \* IsOverdue, NewManager: the receiver Contact, the arguments
    ret,            \* IsOverdue, NewManager: the value returned
    pc,             \* IsOverdue, NewManager: "input" before the call, "done" after it
    calls,          \* storage calls made so far
    m,              \* the TUI's Model (internal/tui/app.go), <<>> while no TUI runs
    taskwarrior,    \* the TaskWarrior installation the TUI's client talks to
    keys            \* key events the TUI has handled so far

vars == <<contacts, logs, nextContactID, nextLogID, now, err, arg, ret, pc, calls,
          m, taskwarrior, keys>>

dbVars == <<contacts, logs, nextContactID, nextLogID, err>>
callVars == <<arg, ret, pc>>
tuiVars == <<m, taskwarrior, keys>>

(***************************************************************************)
(* Bounds of the model.                                                    *)
(***************************************************************************)
TicksPerDay == 2
MaxContacts == 2
MaxLogs == 3
MaxTime == 1
MaxCalls == 3

(***************************************************************************)
(* Program constants: the relationship-type default thresholds, in days.   *)
(***************************************************************************)
CloseFamilyDays == 30
NetworkDays == 90
DefaultDays == 60

(***************************************************************************)
(* sql.NullTime, sql.NullInt64, sql.NullString                             *)
(***************************************************************************)
NoTime == [Valid |-> FALSE, Time |-> 0]
SomeTime(t) == [Valid |-> TRUE, Time |-> t]
NoInt == [Valid |-> FALSE, Int64 |-> 0]
SomeInt(n) == [Valid |-> TRUE, Int64 |-> n]
NoString == [Valid |-> FALSE, String |-> ""]

NewNullString(s) ==
    IF s = "" THEN NoString ELSE [Valid |-> TRUE, String |-> s]

(***************************************************************************)
(* The vocabularies of the schema.                                         *)
(***************************************************************************)
RelationshipTypes ==
    {"close", "family", "network", "social", "providers", "recruiters", "work"}
ContactStyles == {"periodic", "ambient", "triggered"}
ContactStates ==
    {"ping", "invite", "write", "followup", "sked", "notes", "scheduled",
     "timeout", "ok"}

(***************************************************************************)
(* Contact.IsOverdue.  daysSince := time.Since(t).Hours() / 24 compared    *)
(* with a whole number of days: elapsed ticks against days * TicksPerDay.  *)
(***************************************************************************)
\* Variant: the comparison is not strict (>= in place of >).
DaysSinceAtLeast(t, clock, days) == (clock - t) >= days * TicksPerDay

DaysSinceExceeds(t, clock, days) == (clock - t) > days * TicksPerDay

\* Variant: contacted_at wins whenever it is present, even if the bump is later.
LastInteractionPreferContacted(c) ==
    IF c.ContactedAt.Valid THEN c.ContactedAt
    ELSE IF c.LastBumpDate.Valid THEN c.LastBumpDate
    ELSE [Valid |-> FALSE, Time |-> 0]

LastInteraction(c) ==
    IF c.ContactedAt.Valid /\ c.LastBumpDate.Valid
    THEN IF c.ContactedAt.Time > c.LastBumpDate.Time
         THEN c.ContactedAt
         ELSE c.LastBumpDate
    ELSE IF c.ContactedAt.Valid THEN c.ContactedAt
    ELSE IF c.LastBumpDate.Valid THEN c.LastBumpDate
    ELSE NoTime

\* Variant: the custom frequency is never consulted.
OverThresholdTypeOnly(c, t, clock) ==
    IF c.RelationshipType \in {"close", "family"}
    THEN DaysSinceExceeds(t, clock, CloseFamilyDays)
    ELSE IF c.RelationshipType = "network"
    THEN DaysSinceExceeds(t, clock, NetworkDays)
    ELSE DaysSinceExceeds(t, clock, DefaultDays)

\* models.go 75-90: the comparison of daysSince with the threshold
OverThreshold(c, t, clock) ==
    IF c.CustomFrequencyDays.Valid /\ c.CustomFrequencyDays.Int64 > 0
    THEN DaysSinceExceeds(t, clock, c.CustomFrequencyDays.Int64)
    ELSE IF c.RelationshipType \in {"close", "family"}
    THEN DaysSinceExceeds(t, clock, CloseFamilyDays)
    ELSE IF c.RelationshipType = "network"
    THEN DaysSinceExceeds(t, clock, NetworkDays)
    ELSE DaysSinceExceeds(t, clock, DefaultDays)

\* Variant: the archived flag is not tested.
IsOverdueArchivedIgnored(c, clock) ==
    IF c.ContactStyle = "ambient" \/ c.ContactStyle = "triggered" THEN FALSE
    ELSE IF ~LastInteraction(c).Valid THEN TRUE
    ELSE OverThreshold(c, LastInteraction(c).Time, clock)

\* Variant: only the ambient style opts out.
IsOverdueAmbientOnly(c, clock) ==
    IF c.Archived THEN FALSE
    ELSE IF c.ContactStyle = "ambient" THEN FALSE
    ELSE IF ~LastInteraction(c).Valid THEN TRUE
    ELSE OverThreshold(c, LastInteraction(c).Time, clock)

\* Variant: a contact that was never contacted or bumped is not flagged.
IsOverdueNeverEngagedQuiet(c, clock) ==
    IF c.Archived THEN FALSE
    ELSE IF c.ContactStyle = "ambient" \/ c.ContactStyle = "triggered" THEN FALSE
    ELSE IF ~LastInteraction(c).Valid THEN FALSE
    ELSE OverThreshold(c, LastInteraction(c).Time, clock)

IsOverdue(c, clock) ==
    IF c.Archived THEN FALSE
    ELSE IF c.ContactStyle = "ambient" \/ c.ContactStyle = "triggered" THEN FALSE
    ELSE IF ~LastInteraction(c).Valid THEN TRUE
    ELSE OverThreshold(c, LastInteraction(c).Time, clock)

(***************************************************************************)
(* SpecOverdue: IsOverdue applied to every Contact of a bounded input      *)
(* space, at a bounded set of clock readings.                              *)
(***************************************************************************)
FreqInputs == {-1, 0, 1, 10}
ThresholdDays == {1, 10, CloseFamilyDays, DefaultDays, NetworkDays}
Horizon == NetworkDays * TicksPerDay + 1
ElapsedPoints ==
    {0} \cup UNION {{d * TicksPerDay - 1, d * TicksPerDay, d * TicksPerDay + 1} :
                    d \in ThresholdDays}
TimeInputs == {NoTime} \cup {SomeTime(Horizon - e) : e \in ElapsedPoints}
NowPoints == {Horizon, Horizon + 1}
StyleInputs == ContactStyles \cup {"other"}

OverdueInputs ==
    [Archived : BOOLEAN,
     ContactStyle : StyleInputs,
     RelationshipType : RelationshipTypes,
     CustomFrequencyDays : {NoInt} \cup {SomeInt(n) : n \in FreqInputs},
     ContactedAt : TimeInputs,
     LastBumpDate : TimeInputs]

NoContact ==
    [Archived |-> FALSE, ContactStyle |-> "periodic", RelationshipType |-> "network",
     CustomFrequencyDays |-> NoInt, ContactedAt |-> NoTime, LastBumpDate |-> NoTime]

\* No TUI runs: the storage layer and the pure functions are called directly.
NoTUI ==
    /\ m = <<>>
    /\ taskwarrior = <<>>
    /\ keys = 0

InitOverdue ==
    /\ contacts = <<>>
    /\ logs = <<>>
    /\ nextContactID = 1
    /\ nextLogID = 1
    /\ err = ""
    /\ calls = 0
    /\ now \in NowPoints
    /\ arg \in OverdueInputs
    /\ ret = FALSE
    /\ pc = "input"
    /\ NoTUI

CallIsOverdue ==
    /\ pc = "input"
    /\ ret' = IsOverdue(arg, now)
    /\ pc' = "done"
    /\ UNCHANGED <<dbVars, calls, now, arg, tuiVars>>

SpecOverdue == InitOverdue /\ [][CallIsOverdue]_vars

(***************************************************************************)
(* The storage layer.  A row of contacts carries the columns that          *)
(* ListContacts / GetContact scan; a row of contact_interactions is a Log. *)
(* created_at, written once by the INSERT and never again, is left out of  *)
(* both rows.                                                              *)
(***************************************************************************)
\* CHECK (state IN (...)) of the contacts table; NULL passes a CHECK.
StateCheck ==
    {"ping", "invite", "write", "pinged", "followup", "sked", "notes",
     "scheduled", "timeout", "ok"}

\* The CHECK and NOT NULL constraints an INSERT or UPDATE must satisfy.
RelationshipTypeOK(t) == t \in RelationshipTypes
StateOK(st) == st.Valid => st.String \in StateCheck

ContactIDs == 1..MaxContacts
LogIDs == 1..MaxLogs
Exists(id) == id \in DOMAIN contacts
LogExists(lid) == lid \in DOMAIN logs

\* A function without the entries of the keys in gone.
Without(f, gone) == [k \in DOMAIN f \ gone |-> f[k]]

\* Variant: a database without the trigger.
TouchNothing(row) == row

\* Trigger update_contact_timestamp: AFTER UPDATE ON contacts.
Touch(row) == [row EXCEPT !.UpdatedAt = now]

\* The values the callers pass.
Details(on) ==
    IF on
    THEN [Email |-> NewNullString("e"), Phone |-> NewNullString("p"),
          Company |-> NewNullString("c"), Notes |-> NewNullString("n")]
    ELSE [Email |-> NewNullString(""), Phone |-> NewNullString(""),
          Company |-> NewNullString(""), Notes |-> NewNullString("")]

ContactInput(name, rel, st, label, on) ==
    [Name |-> name, RelationshipType |-> rel, State |-> NewNullString(st),
     Label |-> NewNullString(label),
     Email |-> Details(on).Email, Phone |-> Details(on).Phone,
     Company |-> Details(on).Company, Notes |-> Details(on).Notes]

ContactInputs ==
    {ContactInput("Ann", "work", "ok", "", FALSE),
     ContactInput("Bob", "close", "", "@bob", TRUE),
     ContactInput("", "network", "ping", "", FALSE),
     ContactInput("Ann", "friend", "ok", "", FALSE),
     ContactInput("Bob", "work", "done", "", FALSE)}
\* The edit form's values; UpdateContact does not write the state.
EditInputs ==
    {ContactInput("Bob", "close", "", "@bob", TRUE),
     ContactInput("", "network", "", "", FALSE),
     ContactInput("Ann", "friend", "", "", FALSE)}
StateArgs == {"ok", "pinged", "done"}
StyleArgs == {"periodic", "ambient", "triggered", "weekly"}
FrequencyArgs == {NoInt, SomeInt(45)}
TypeArgs == {"manual"}
EditTypeArgs == {"call"}
EditNotesArgs == {"edited"}
NotesArgs == {"", "n"}
\* Notes are optional on a mark: the notes a mark is given here are empty.
MarkNotesArgs == {""}
ExecFailures == {"none", "exec"}
TxFailures == {"none", "update", "insert", "commit"}

\* return fmt.Errorf(...): nothing was written, or the transaction rolled back.
Failed ==
    /\ err' = "error"
    /\ UNCHANGED <<contacts, logs, nextContactID, nextLogID>>

\* Variant: the statements run on the connection, outside any transaction.
RollbackKeepingWrites(txContacts, txLogs) ==
    /\ err' = "error"
    /\ contacts' = txContacts
    /\ logs' = txLogs
    /\ nextLogID' = IF txLogs = logs THEN nextLogID ELSE nextLogID + 1
    /\ UNCHANGED nextContactID

\* defer tx.Rollback() after an early return: the rows the transaction wrote
\* (txContacts, txLogs) are dropped and the tables are as before Begin.
Rollback(txContacts, txLogs) ==
    /\ err' = "error"
    /\ UNCHANGED <<contacts, logs, nextContactID, nextLogID>>

\* A storage call is counted; the clock and the IsOverdue call stand still.
Called ==
    /\ calls < MaxCalls
    /\ calls' = calls + 1
    /\ UNCHANGED <<now, callVars>>

\* INSERT INTO contact_interactions (contact_id, interaction_date,
\* interaction_type, notes) VALUES (?, CURRENT_TIMESTAMP, ?, ?)
InsertLog(id, type, notes) ==
    logs @@ (nextLogID :> [ContactID |-> id,
                            InteractionDate |-> now,
                            InteractionType |-> type,
                            Notes |-> [Valid |-> TRUE, String |-> notes]])

\* The row INSERT INTO contacts (name, email, phone, company, relationship_type,
\* state, notes, label, created_at, updated_at) stores: the other columns take
\* their schema defaults.
NewRow(contact) ==
    [Name |-> contact.Name,
     Email |-> contact.Email,
     Phone |-> contact.Phone,
     Company |-> contact.Company,
     RelationshipType |-> contact.RelationshipType,
     State |-> contact.State,
     Notes |-> contact.Notes,
     Label |-> contact.Label,
     BasicMemoryURL |-> NoString,
     ContactedAt |-> NoTime,
     LastBumpDate |-> NoTime,
     BumpCount |-> 0,
     FollowUpDate |-> NoTime,
     DeadlineDate |-> NoTime,
     Archived |-> FALSE,
     ArchivedAt |-> NoTime,
     ContactStyle |-> "periodic",
     CustomFrequencyDays |-> NoInt,
     UpdatedAt |-> now]

AddContact(contact, fail) ==
    /\ Called
    /\ nextContactID <= MaxContacts
    /\ IF fail # "none" \/ ~RelationshipTypeOK(contact.RelationshipType)
          \/ ~StateOK(contact.State)
       THEN Failed
       ELSE /\ err' = ""
            /\ nextContactID' = nextContactID + 1
            /\ UNCHANGED <<logs, nextLogID>>
            /\ contacts' = contacts @@ (nextContactID :> NewRow(contact))

MarkContacted(contactID, interactionType, notes, fail) ==
    /\ Called
    /\ nextLogID <= MaxLogs
    /\ LET updated ==
                IF Exists(contactID)
                THEN [contacts EXCEPT ![contactID] =
                        Touch([@ EXCEPT !.ContactedAt = SomeTime(now)])]
                ELSE contacts
            inserted == InsertLog(contactID, interactionType, notes)
       IN CASE fail = "update" -> Rollback(contacts, logs)
            [] fail = "insert" -> Rollback(updated, logs)
            [] fail = "commit" -> Rollback(updated, inserted)
            [] OTHER ->
              /\ err' = ""
              /\ nextLogID' = nextLogID + 1
              /\ UNCHANGED nextContactID
              /\ contacts' = updated
              /\ logs' = inserted

\* QueryRow(...).Scan(...): sql.ErrNoRows when no row has the id.
GetContact(id) ==
    IF Exists(id)
    THEN [err |-> "", contact |-> <<contacts[id]>>]
    ELSE [err |-> "error", contact |-> <<>>]

UpdateContactState(contactID, state, fail) ==
    /\ Called
    /\ IF fail # "none" \/ (Exists(contactID) /\ state \notin StateCheck)
       THEN Failed
       ELSE /\ err' = ""
            /\ UNCHANGED <<logs, nextContactID, nextLogID>>
            /\ contacts' =
                  IF Exists(contactID)
                  THEN [contacts EXCEPT ![contactID] =
                          Touch([@ EXCEPT !.State = [Valid |-> TRUE, String |-> state]])]
                  ELSE contacts

\* Variant: the notes are not looked at before the INSERT.
AddInteractionNoteUnchecked(contactID, interactionType, notes, fail) ==
    /\ Called
    /\ nextLogID <= MaxLogs
    /\ IF fail # "none"
       THEN Failed
       ELSE /\ err' = ""
            /\ nextLogID' = nextLogID + 1
            /\ UNCHANGED <<contacts, nextContactID>>
            /\ logs' = InsertLog(contactID, interactionType, notes)

AddInteractionNote(contactID, interactionType, notes, fail) ==
    /\ Called
    /\ nextLogID <= MaxLogs
    /\ IF notes = ""
       THEN Failed
       ELSE IF fail # "none"
       THEN Failed
       ELSE /\ err' = ""
            /\ nextLogID' = nextLogID + 1
            /\ UNCHANGED <<contacts, nextContactID>>
            /\ logs' = InsertLog(contactID, interactionType, notes)

\* Variant: the state of the record passed in is written as well.
UpdateContactWithState(contactID, contact, fail) ==
    /\ Called
    /\ IF fail # "none"
          \/ (Exists(contactID) /\ ~RelationshipTypeOK(contact.RelationshipType))
       THEN Failed
       ELSE /\ err' = ""
            /\ UNCHANGED <<logs, nextContactID, nextLogID>>
            /\ contacts' =
                  IF Exists(contactID)
                  THEN [contacts EXCEPT ![contactID] =
                          Touch([@ EXCEPT !.Name = contact.Name,
                                          !.Email = contact.Email,
                                          !.Phone = contact.Phone,
                                          !.Company = contact.Company,
                                          !.RelationshipType = contact.RelationshipType,
                                          !.State = contact.State,
                                          !.Notes = contact.Notes,
                                          !.Label = contact.Label])]
                  ELSE contacts

UpdateContact(contactID, contact, fail) ==
    /\ Called
    /\ IF fail # "none"
          \/ (Exists(contactID) /\ ~RelationshipTypeOK(contact.RelationshipType))
       THEN Failed
       ELSE /\ err' = ""
            /\ UNCHANGED <<logs, nextContactID, nextLogID>>
            /\ contacts' =
                  IF Exists(contactID)
                  THEN [contacts EXCEPT ![contactID] =
                          Touch([@ EXCEPT !.Name = contact.Name,
                                          !.Email = contact.Email,
                                          !.Phone = contact.Phone,
                                          !.Company = contact.Company,
                                          !.RelationshipType = contact.RelationshipType,
                                          !.Notes = contact.Notes,
                                          !.Label = contact.Label])]
                  ELSE contacts

\* Variant: last_bump_date is not written.
BumpRowDateKept(row) ==
    [row EXCEPT !.BumpCount = @ + 1, !.UpdatedAt = now]

\* Variant: the counter is not incremented.
BumpRowCountKept(row) ==
    [row EXCEPT !.LastBumpDate = SomeTime(now), !.UpdatedAt = now]

\* UPDATE contacts SET last_bump_date = CURRENT_TIMESTAMP,
\* bump_count = bump_count + 1, updated_at = CURRENT_TIMESTAMP
BumpRow(row) ==
    [row EXCEPT !.LastBumpDate = SomeTime(now),
                !.BumpCount = @ + 1,
                !.UpdatedAt = now]

BumpContact(contactID, fail) ==
    /\ Called
    /\ nextLogID <= MaxLogs
    /\ LET updated ==
                IF Exists(contactID)
                THEN [contacts EXCEPT ![contactID] = BumpRow(@)]
                ELSE contacts
            inserted == InsertLog(contactID, "bump", "Contact reviewed and bumped")
       IN CASE fail = "update" -> Rollback(contacts, logs)
            [] fail = "insert" -> Rollback(updated, logs)
            [] fail = "commit" -> Rollback(updated, inserted)
            [] OTHER ->
              /\ err' = ""
              /\ nextLogID' = nextLogID + 1
              /\ UNCHANGED nextContactID
              /\ contacts' = updated
              /\ logs' = inserted

\* Variant: the call toggles, as the key that issues it does.
ArchiveRowToggle(row) ==
    [row EXCEPT !.Archived = ~row.Archived,
                !.ArchivedAt = IF row.Archived THEN NoTime ELSE SomeTime(now),
                !.UpdatedAt = now]

\* Variant: archived_at is not written.
ArchiveRowFlagOnly(row) ==
    [row EXCEPT !.Archived = TRUE, !.UpdatedAt = now]

\* UPDATE contacts SET archived = 1, archived_at = CURRENT_TIMESTAMP,
\* updated_at = CURRENT_TIMESTAMP
ArchiveRow(row) ==
    [row EXCEPT !.Archived = TRUE,
                !.ArchivedAt = SomeTime(now),
                !.UpdatedAt = now]

ArchiveContact(contactID, fail) ==
    /\ Called
    /\ IF fail # "none"
       THEN Failed
       ELSE /\ err' = ""
            /\ UNCHANGED <<logs, nextContactID, nextLogID>>
            /\ contacts' =
                  IF Exists(contactID)
                  THEN [contacts EXCEPT ![contactID] = ArchiveRow(@)]
                  ELSE contacts

\* Variant: the flag is cleared and archived_at is left behind.
UnarchiveRowDateKept(row) ==
    [row EXCEPT !.Archived = FALSE, !.UpdatedAt = now]

\* UPDATE contacts SET archived = 0, archived_at = NULL,
\* updated_at = CURRENT_TIMESTAMP
UnarchiveRow(row) ==
    [row EXCEPT !.Archived = FALSE,
                !.ArchivedAt = NoTime,
                !.UpdatedAt = now]

UnarchiveContact(contactID, fail) ==
    /\ Called
    /\ IF fail # "none"
       THEN Failed
       ELSE /\ err' = ""
            /\ UNCHANGED <<logs, nextContactID, nextLogID>>
            /\ contacts' =
                  IF Exists(contactID)
                  THEN [contacts EXCEPT ![contactID] = UnarchiveRow(@)]
                  ELSE contacts

\* Variant: only the contacts row is deleted; the log rows are left to the
\* foreign key's ON DELETE CASCADE, which the connection does not enforce.
DeleteContactRowOnly(contactID, fail) ==
    /\ Called
    /\ IF fail # "none"
       THEN Rollback(contacts, logs)
       ELSE /\ err' = ""
            /\ UNCHANGED <<logs, nextContactID, nextLogID>>
            /\ contacts' = Without(contacts, {contactID})

DeleteContact(contactID, fail) ==
    /\ Called
    /\ LET logsKept == Without(logs, {l \in DOMAIN logs : logs[l].ContactID = contactID})
            contactsKept == Without(contacts, {contactID})
       IN CASE fail = "update" -> Rollback(contacts, logs)
            [] fail = "insert" -> Rollback(contacts, logsKept)
            [] fail = "commit" -> Rollback(contactsKept, logsKept)
            [] OTHER ->
              /\ err' = ""
              /\ UNCHANGED <<nextContactID, nextLogID>>
              /\ logs' = logsKept
              /\ contacts' = contactsKept

\* Variant: the edit also stamps the entry with the time of the edit.
UpdateInteractionRedated(interactionID, interactionType, notes, fail) ==
    /\ Called
    /\ IF fail # "none"
       THEN Failed
       ELSE /\ err' = ""
            /\ UNCHANGED <<contacts, nextContactID, nextLogID>>
            /\ logs' =
                  IF LogExists(interactionID)
                  THEN [logs EXCEPT ![interactionID] =
                          [@ EXCEPT !.InteractionType = interactionType,
                                    !.InteractionDate = now,
                                    !.Notes = [Valid |-> TRUE, String |-> notes]]]
                  ELSE logs

UpdateInteraction(interactionID, interactionType, notes, fail) ==
    /\ Called
    /\ IF fail # "none"
       THEN Failed
       ELSE /\ err' = ""
            /\ UNCHANGED <<contacts, nextContactID, nextLogID>>
            /\ logs' =
                  IF LogExists(interactionID)
                  THEN [logs EXCEPT ![interactionID] =
                          [@ EXCEPT !.InteractionType = interactionType,
                                    !.Notes = [Valid |-> TRUE, String |-> notes]]]
                  ELSE logs

\* Variant: deleting a bump entry takes the bump back from its contact.
DeleteInteractionUndoingBump(interactionID, fail) ==
    /\ Called
    /\ IF fail # "none"
       THEN Failed
       ELSE /\ err' = ""
            /\ UNCHANGED <<nextContactID, nextLogID>>
            /\ logs' = Without(logs, {interactionID})
            /\ contacts' =
                  IF /\ LogExists(interactionID)
                     /\ logs[interactionID].InteractionType = "bump"
                     /\ Exists(logs[interactionID].ContactID)
                  THEN [contacts EXCEPT ![logs[interactionID].ContactID].BumpCount = @ - 1]
                  ELSE contacts

DeleteInteraction(interactionID, fail) ==
    /\ Called
    /\ IF fail # "none"
       THEN Failed
       ELSE /\ err' = ""
            /\ UNCHANGED <<contacts, nextContactID, nextLogID>>
            /\ logs' = Without(logs, {interactionID})

\* Variant: without a frequency only contact_style is written.
UpdateContactStyleFrequencyKept(contactID, style, customFrequencyDays, fail) ==
    /\ Called
    /\ IF fail # "none"
       THEN Failed
       ELSE /\ err' = ""
            /\ UNCHANGED <<logs, nextContactID, nextLogID>>
            /\ contacts' =
                  IF Exists(contactID)
                  THEN [contacts EXCEPT ![contactID] =
                          Touch([@ EXCEPT !.ContactStyle = style,
                                          !.CustomFrequencyDays =
                                              IF customFrequencyDays.Valid
                                              THEN customFrequencyDays
                                              ELSE @])]
                  ELSE contacts

UpdateContactStyle(contactID, style, customFrequencyDays, fail) ==
    /\ Called
    /\ IF fail # "none"
       THEN Failed
       ELSE /\ err' = ""
            /\ UNCHANGED <<logs, nextContactID, nextLogID>>
            /\ contacts' =
                  IF Exists(contactID)
                  THEN [contacts EXCEPT ![contactID] =
                          Touch([@ EXCEPT !.ContactStyle = style,
                                          !.CustomFrequencyDays = customFrequencyDays])]
                  ELSE contacts

\* The clock advances between calls.  Only calls read it, so it is let run
\* while a call is still to come.
Tick ==
    /\ now < MaxTime
    /\ calls < MaxCalls
    /\ now' = now + 1
    /\ UNCHANGED <<dbVars, calls, callVars, tuiVars>>

\* main.go initializeSetup: the database as `contacts-tui -init` leaves it,
\* the schema plus the sample contact.
sampleContact ==
    [Name |-> "Sample Contact",
     Email |-> NewNullString("sample@example.com"),
     Phone |-> NewNullString("555-0123"),
     Company |-> NewNullString("Example Corp"),
     RelationshipType |-> "network",
     State |-> NewNullString("ok"),
     Notes |-> NewNullString("This is a sample contact."),
     Label |-> NewNullString("@sample")]

Init ==
    /\ now = 0
    /\ contacts = (1 :> NewRow(sampleContact))
    /\ logs = <<>>
    /\ nextContactID = 2
    /\ nextLogID = 1
    /\ err = ""
    /\ calls = 0
    /\ arg = NoContact
    /\ ret = FALSE
    /\ pc = "idle"
    /\ NoTUI

\* The ids the callers pass: those of the rows, and one id that has no row.
IDArgs == DOMAIN contacts \cup {nextContactID}
LogIDArgs == DOMAIN logs \cup {nextLogID}

\* The style calls: a frequency goes with periodic (the TUI's input mode) or,
\* through the exported function, with ambient.
StyleCalls ==
    {c \in StyleArgs \X FrequencyArgs : c[2].Valid <=> c[1] \in {"periodic", "ambient"}}
        \cup {<<"periodic", NoInt>>}

Next ==
    \/ Tick
    \/ (\E c \in ContactInputs, f \in ExecFailures : AddContact(c, f))
          /\ UNCHANGED tuiVars
    \/ (\E id \in IDArgs, t \in TypeArgs, n \in MarkNotesArgs, f \in TxFailures :
          MarkContacted(id, t, n, f))
          /\ UNCHANGED tuiVars
    \/ (\E id \in IDArgs, st \in StateArgs, f \in ExecFailures :
          UpdateContactState(id, st, f))
          /\ UNCHANGED tuiVars
    \/ (\E id \in IDArgs, t \in TypeArgs, n \in NotesArgs, f \in ExecFailures :
          AddInteractionNote(id, t, n, f))
          /\ UNCHANGED tuiVars
    \/ (\E id \in IDArgs, c \in EditInputs, f \in ExecFailures :
          UpdateContact(id, c, f))
          /\ UNCHANGED tuiVars
    \/ (\E id \in IDArgs, f \in TxFailures : BumpContact(id, f))
          /\ UNCHANGED tuiVars
    \/ (\E id \in IDArgs, f \in ExecFailures : ArchiveContact(id, f))
          /\ UNCHANGED tuiVars
    \/ (\E id \in IDArgs, f \in ExecFailures : UnarchiveContact(id, f))
          /\ UNCHANGED tuiVars
    \/ (\E id \in IDArgs, f \in TxFailures : DeleteContact(id, f))
          /\ UNCHANGED tuiVars
    \/ (\E lid \in LogIDArgs, t \in EditTypeArgs, n \in EditNotesArgs, f \in ExecFailures :
          UpdateInteraction(lid, t, n, f))
          /\ UNCHANGED tuiVars
    \/ (\E lid \in LogIDArgs, f \in ExecFailures : DeleteInteraction(lid, f))
          /\ UNCHANGED tuiVars
    \/ (\E id \in IDArgs, c \in StyleCalls, f \in ExecFailures :
          UpdateContactStyle(id, c[1], c[2], f))
          /\ UNCHANGED tuiVars

Spec == Init /\ [][Next]_vars

(***************************************************************************)
(* SpecScenario: contacts are added, marked contacted and bumped while the *)
(* clock runs over many days.  The clock is read at the instants around    *)
(* the default threshold: day 0, 59, 60, 61, 119 and 120, and one tick     *)
(* after day 60 and day 119.                                               *)
(***************************************************************************)
Day(n) == n * TicksPerDay
ScenarioInstants ==
    {0, Day(DefaultDays - 1), Day(DefaultDays), Day(DefaultDays) + 1,
     Day(DefaultDays + 1), Day(2 * DefaultDays - 1), Day(2 * DefaultDays - 1) + 1,
     Day(2 * DefaultDays)}

janeDoe ==
    [Name |-> "Jane Doe",
     Email |-> NewNullString(""),
     Phone |-> NewNullString(""),
     Company |-> NewNullString(""),
     RelationshipType |-> "work",
     State |-> NewNullString("ok"),
     Notes |-> NewNullString(""),
     Label |-> NewNullString("")]

AdvanceClock ==
    /\ \E t \in ScenarioInstants :
          /\ t > now
          /\ \A u \in ScenarioInstants : u > now => t <= u
          /\ now' = t
    /\ UNCHANGED <<dbVars, calls, callVars, tuiVars>>

ScenarioNext ==
    \/ AdvanceClock
    \/ AddContact(janeDoe, "none") /\ UNCHANGED tuiVars
    \/ (\E id \in DOMAIN contacts : MarkContacted(id, "manual", "Marked via TUI", "none"))
          /\ UNCHANGED tuiVars
    \/ (\E id \in DOMAIN contacts : BumpContact(id, "none"))
          /\ UNCHANGED tuiVars

SpecScenario == Init /\ [][ScenarioNext]_vars

(***************************************************************************)
(* Claims about IsOverdue, checked under SpecOverdue.                      *)
(***************************************************************************)
Engaged(c) == c.ContactedAt.Valid \/ c.LastBumpDate.Valid
Active(c) == ~c.Archived /\ c.ContactStyle = "periodic"

\* The later of the two timestamps, or the only one present.
Latest(c) ==
    IF c.ContactedAt.Valid /\ c.LastBumpDate.Valid
    THEN IF c.ContactedAt.Time >= c.LastBumpDate.Time
         THEN c.ContactedAt.Time ELSE c.LastBumpDate.Time
    ELSE IF c.ContactedAt.Valid THEN c.ContactedAt.Time ELSE c.LastBumpDate.Time

\* The threshold in days as the specification states it.
StatedThreshold(c) ==
    IF c.CustomFrequencyDays.Valid /\ c.CustomFrequencyDays.Int64 > 0
    THEN c.CustomFrequencyDays.Int64
    ELSE CASE c.RelationshipType \in {"close", "family"} -> 30
           [] c.RelationshipType = "network" -> 90
           [] OTHER -> 60

\* C1: an archived contact is never overdue, whatever its other fields and
\* whatever the time.
C1_ArchivedNeverOverdue ==
    (pc = "done" /\ arg.Archived) => ret = FALSE

\* An archived periodic contact that was never engaged has been evaluated.
C1_Witness ==
    /\ pc = "done"
    /\ arg.Archived
    /\ arg.ContactStyle = "periodic"
    /\ ~Engaged(arg)
    /\ ret = FALSE

\* C2: a non-archived ambient or triggered contact is never overdue,
\* regardless of timestamps, custom frequency and time.
C2_AmbientTriggeredNeverOverdue ==
    (pc = "done" /\ ~arg.Archived /\ arg.ContactStyle \in {"ambient", "triggered"})
        => ret = FALSE

\* A non-archived triggered contact that was never engaged has been evaluated.
C2_Witness ==
    /\ pc = "done"
    /\ ~arg.Archived
    /\ arg.ContactStyle = "triggered"
    /\ ~Engaged(arg)
    /\ ret = FALSE

\* C3: a non-archived periodic contact with neither contactedAt nor
\* lastBumpDate is overdue at every time, whatever its type and frequency.
C3_NeverEngagedOverdue ==
    (pc = "done" /\ Active(arg) /\ ~Engaged(arg)) => ret = TRUE

\* Such a contact with a custom frequency of 10 days has been evaluated.
C3_Witness ==
    /\ pc = "done"
    /\ Active(arg)
    /\ ~Engaged(arg)
    /\ arg.CustomFrequencyDays = SomeInt(10)
    /\ ret = TRUE

\* C4: for a non-archived periodic contact the result is the one obtained
\* from the later timestamp alone (or from the only one present): replacing
\* the other timestamp by any value that is not later, or removing it,
\* leaves the result unchanged.
C4_LaterTimestampDecides ==
    (pc = "done" /\ Active(arg) /\ Engaged(arg)) =>
        /\ ret = OverThreshold(arg, Latest(arg), now)
        /\ \A older \in TimeInputs :
              (older.Valid => older.Time <= Latest(arg)) =>
                 /\ IsOverdue([arg EXCEPT !.ContactedAt = SomeTime(Latest(arg)),
                                          !.LastBumpDate = older], now) = ret
                 /\ IsOverdue([arg EXCEPT !.LastBumpDate = SomeTime(Latest(arg)),
                                          !.ContactedAt = older], now) = ret

\* A contact whose bump is recent and whose contact is older than the
\* threshold has been evaluated as not overdue.
C4_Witness ==
    /\ pc = "done"
    /\ Active(arg)
    /\ arg.ContactedAt.Valid /\ arg.LastBumpDate.Valid
    /\ arg.ContactedAt.Time < arg.LastBumpDate.Time
    /\ DaysSinceExceeds(arg.ContactedAt.Time, now, StatedThreshold(arg))
    /\ ret = FALSE

\* C5: the threshold of a periodic contact is customFrequencyDays when set
\* and positive, otherwise 30 days for close and family, 90 for network and
\* 60 for every other type.
C5_ThresholdSelection ==
    (pc = "done" /\ Active(arg) /\ Engaged(arg)) =>
        (ret <=> (now - Latest(arg) > StatedThreshold(arg) * TicksPerDay))

\* A network contact with a custom frequency of 10 days, last engaged more
\* than 10 and fewer than 90 days ago, has been evaluated as overdue.
C5_Witness ==
    /\ pc = "done"
    /\ Active(arg)
    /\ Engaged(arg)
    /\ arg.RelationshipType = "network"
    /\ arg.CustomFrequencyDays = SomeInt(10)
    /\ now - Latest(arg) > 10 * TicksPerDay
    /\ now - Latest(arg) < 90 * TicksPerDay
    /\ ret = TRUE

\* C6: the comparison is strict: exactly threshold days after the last
\* interaction the contact is not overdue, one tick later it is.
C6_StrictBoundary ==
    (pc = "done" /\ Active(arg) /\ Engaged(arg)) =>
        /\ (now - Latest(arg) = StatedThreshold(arg) * TicksPerDay) => ret = FALSE
        /\ (now - Latest(arg) = StatedThreshold(arg) * TicksPerDay + 1) => ret = TRUE

\* A close contact last contacted exactly 30 days ago has been evaluated.
C6_Witness ==
    /\ pc = "done"
    /\ Active(arg)
    /\ arg.RelationshipType = "close"
    /\ ~arg.CustomFrequencyDays.Valid
    /\ arg.ContactedAt.Valid /\ ~arg.LastBumpDate.Valid
    /\ now - arg.ContactedAt.Time = 30 * TicksPerDay
    /\ ret = FALSE

(***************************************************************************)
(* Claims about the scenario, checked under SpecScenario.                  *)
(***************************************************************************)
LogsOf(id) == {l \in DOMAIN logs : logs[l].ContactID = id}
LogsOfType(id, type) == {l \in LogsOf(id) : logs[l].InteractionType = type}
LoggedAt(id, type, t) == \E l \in LogsOfType(id, type) : logs[l].InteractionDate = t
LastLogged(id) ==
    CHOOSE t \in {logs[l].InteractionDate : l \in LogsOf(id)} :
        \A l \in LogsOf(id) : logs[l].InteractionDate <= t
IsJane(id) == Exists(id) /\ contacts[id].Name = "Jane Doe"

\* C7: a newly added work contact is overdue until it is first marked or
\* bumped; from then on it is overdue exactly when more than 60 days have
\* passed since its latest mark or bump.  So after a mark at day 0 alone it
\* is not overdue through day 60 and overdue at day 61, and after a mark at
\* day 0 and a bump at day 59 it is not overdue through day 119 and overdue
\* after it.
C7_Scenario ==
    \A id \in DOMAIN contacts :
        contacts[id].RelationshipType = "work" =>
            /\ LogsOf(id) = {} => IsOverdue(contacts[id], now)
            /\ LogsOf(id) # {} =>
                  (IsOverdue(contacts[id], now) <=> now - LastLogged(id) > Day(60))
            /\ (LogsOf(id) # {} /\ LastLogged(id) = now) => ~IsOverdue(contacts[id], now)
            /\ (Cardinality(LogsOf(id)) = 1 /\ LoggedAt(id, "manual", 0)) =>
                  /\ now <= Day(60) => ~IsOverdue(contacts[id], now)
                  /\ now >= Day(61) => IsOverdue(contacts[id], now)
            /\ (Cardinality(LogsOf(id)) = 2 /\ LoggedAt(id, "manual", 0)
                  /\ LoggedAt(id, "bump", Day(59))) =>
                  /\ now <= Day(119) => ~IsOverdue(contacts[id], now)
                  /\ now > Day(119) => IsOverdue(contacts[id], now)

\* Jane Doe was marked contacted at day 0 and bumped at day 59; at day 119
\* she is not overdue.
C7_Witness ==
    \E id \in DOMAIN contacts :
        /\ IsJane(id)
        /\ Cardinality(LogsOf(id)) = 2
        /\ LoggedAt(id, "manual", 0)
        /\ LoggedAt(id, "bump", Day(59))
        /\ now = Day(119)
        /\ ~IsOverdue(contacts[id], now)

(***************************************************************************)
(* Claims about the mutation protocol, checked under Spec.                 *)
(***************************************************************************)
BumpLogs(id) == LogsOfType(id, "bump")

\* C8: a successful bump of an existing contact sets lastBumpDate to now,
\* raises that contact's bumpCount by exactly 1 and appends exactly one log
\* entry, of type bump and owned by that contact; and when the first n calls
\* on the initial database are n bumps of the same contact, that contact has
\* bumpCount n and n bump entries.
C8_BumpStep ==
    \A id \in DOMAIN contacts :
        BumpContact(id, "none") =>
            /\ err' = ""
            /\ contacts'[id].LastBumpDate = SomeTime(now)
            /\ contacts'[id].BumpCount = contacts[id].BumpCount + 1
            /\ DOMAIN logs' = DOMAIN logs \cup {nextLogID}
            /\ nextLogID \notin DOMAIN logs
            /\ \A l \in DOMAIN logs : logs'[l] = logs[l]
            /\ logs'[nextLogID].ContactID = id
            /\ logs'[nextLogID].InteractionType = "bump"
            /\ logs'[nextLogID].InteractionDate = now

C8_ConsecutiveBumps ==
    \A id \in DOMAIN contacts :
        (calls > 0 /\ Cardinality(BumpLogs(id)) = calls) =>
            contacts[id].BumpCount = calls

\* C8: every step satisfies the bump step property, and every state the
\* consecutive-bumps property.
C8_Bump == [][C8_BumpStep]_vars /\ []C8_ConsecutiveBumps

\* The sample contact was bumped three times in a row.
C8_Witness ==
    /\ Exists(1)
    /\ calls = 3
    /\ contacts[1].BumpCount = 3
    /\ Cardinality(BumpLogs(1)) = 3
    /\ contacts[1].LastBumpDate.Valid
    /\ err = ""

\* C9: in every step that keeps a contact, its bumpCount does not decrease,
\* and it changes only in a successful bump of that contact, by exactly 1.
C9_BumpCountStep ==
    \A id \in DOMAIN contacts \cap DOMAIN contacts' :
        /\ contacts'[id].BumpCount >= contacts[id].BumpCount
        /\ contacts'[id].BumpCount # contacts[id].BumpCount =>
              /\ BumpContact(id, "none")
              /\ contacts'[id].BumpCount = contacts[id].BumpCount + 1

\* C9: every step keeps bumpCount, or is a bump that raises it by exactly 1.
C9_BumpCountMonotonic == [][C9_BumpCountStep]_vars

\* A contact was bumped and its bump log entry was deleted afterwards: the
\* count is still 1.
C9_Witness ==
    \E id \in DOMAIN contacts :
        /\ contacts[id].BumpCount = 1
        /\ BumpLogs(id) = {}
        /\ logs = <<>>
        /\ nextLogID = 2

\* C10: every contact has archived = true exactly when archivedAt is set.
C10_ArchivedIffArchivedAt ==
    \A id \in DOMAIN contacts :
        contacts[id].Archived <=> contacts[id].ArchivedAt.Valid

\* A contact was archived and unarchived and then archived again at tick 1,
\* beside a contact that was added and never archived.
C10_Witness ==
    \E a, b \in DOMAIN contacts :
        /\ contacts[a].Archived /\ contacts[a].ArchivedAt = SomeTime(1)
        /\ ~contacts[b].Archived /\ ~contacts[b].ArchivedAt.Valid
        /\ calls = 3

\* Two rows agree on every column outside `columns`.
SameBut(r1, r2, columns) == \A f \in DOMAIN r1 \ columns : r1[f] = r2[f]

\* C11: an archive step changes only archived, archivedAt and updatedAt of
\* its contact, and an unarchive step leaves it with archived = false and
\* archivedAt absent and changes nothing else but updatedAt.
C11_ArchiveSteps ==
    \A id \in DOMAIN contacts :
        /\ ArchiveContact(id, "none") =>
              /\ contacts'[id].Archived /\ contacts'[id].ArchivedAt = SomeTime(now)
              /\ SameBut(contacts'[id], contacts[id], {"Archived", "ArchivedAt", "UpdatedAt"})
        /\ UnarchiveContact(id, "none") =>
              /\ ~contacts'[id].Archived /\ ~contacts'[id].ArchivedAt.Valid
              /\ SameBut(contacts'[id], contacts[id], {"Archived", "ArchivedAt", "UpdatedAt"})

\* C11: for every stored contact, unarchiving the archived row gives
\* archived = false and archivedAt absent, and for a contact that was not
\* archived it gives back the row it started from but for updatedAt.
C11_RoundTripRow ==
    \A id \in DOMAIN contacts :
        /\ ~UnarchiveRow(ArchiveRow(contacts[id])).Archived
        /\ ~UnarchiveRow(ArchiveRow(contacts[id])).ArchivedAt.Valid
        /\ SameBut(UnarchiveRow(ArchiveRow(contacts[id])), contacts[id],
                   {"Archived", "ArchivedAt", "UpdatedAt"})
        /\ ~contacts[id].Archived =>
              SameBut(UnarchiveRow(ArchiveRow(contacts[id])), contacts[id], {"UpdatedAt"})

\* C11: archiving a contact and then unarchiving it restores archived = false
\* and an absent archivedAt and keeps every other field but updatedAt.
C11_ArchiveUnarchive == [][C11_ArchiveSteps]_vars /\ []C11_RoundTripRow

\* The sample contact was archived at tick 0 and unarchived at tick 1: it is
\* the row of the initial database but for updatedAt.
C11_Witness ==
    /\ Exists(1)
    /\ calls = 2
    /\ err = ""
    /\ now = 1
    /\ contacts[1] = [NewRow(sampleContact) EXCEPT !.UpdatedAt = 1]

Presence(row) == <<row.Archived, row.ArchivedAt.Valid>>

\* C12: archiving a contact that is already archived leaves it archived with
\* archivedAt set, unarchiving one that is not archived leaves it unarchived
\* with archivedAt absent, and neither changes another column than
\* archivedAt and updatedAt.
C12_RepeatedSteps ==
    \A id \in DOMAIN contacts :
        /\ (contacts[id].Archived /\ ArchiveContact(id, "none")) =>
              /\ Presence(contacts'[id]) = <<TRUE, TRUE>>
              /\ SameBut(contacts'[id], contacts[id], {"ArchivedAt", "UpdatedAt"})
        /\ (~contacts[id].Archived /\ UnarchiveContact(id, "none")) =>
              /\ Presence(contacts'[id]) = <<FALSE, FALSE>>
              /\ SameBut(contacts'[id], contacts[id], {"UpdatedAt"})

\* C12: on every stored row, either operation applied twice gives the same
\* archived flag and the same presence of archivedAt as applied once.
C12_TwiceAsOnce ==
    \A id \in DOMAIN contacts :
        /\ Presence(ArchiveRow(ArchiveRow(contacts[id]))) = Presence(ArchiveRow(contacts[id]))
        /\ Presence(ArchiveRow(contacts[id])) = <<TRUE, TRUE>>
        /\ Presence(UnarchiveRow(UnarchiveRow(contacts[id]))) =
              Presence(UnarchiveRow(contacts[id]))
        /\ Presence(UnarchiveRow(contacts[id])) = <<FALSE, FALSE>>

\* C12: archive and unarchive are idempotent in their effect on archived and
\* on the presence of archivedAt.
C12_Idempotent == [][C12_RepeatedSteps]_vars /\ []C12_TwiceAsOnce

\* The sample contact was archived at tick 0 and again at tick 1.
C12_Witness ==
    /\ Exists(1)
    /\ calls = 2
    /\ err = ""
    /\ contacts[1] = [NewRow(sampleContact) EXCEPT !.Archived = TRUE,
                                                   !.ArchivedAt = SomeTime(1),
                                                   !.UpdatedAt = 1]

\* ---- C13 ----------------------------------------------------------------

C13_RolledBack ==
    /\ err' = "error"
    /\ contacts' = contacts
    /\ logs' = logs

C13_OneLogAdded(contactID, interactionType) ==
    /\ nextLogID \notin DOMAIN logs
    /\ DOMAIN logs' = DOMAIN logs \cup {nextLogID}
    /\ \A l \in DOMAIN logs : logs'[l] = logs[l]
    /\ logs'[nextLogID].ContactID = contactID
    /\ logs'[nextLogID].InteractionType = interactionType
    /\ logs'[nextLogID].InteractionDate = now

C13_TxSteps ==
    \A id \in DOMAIN contacts :
        /\ \A fail \in {"insert", "commit"} :
              ( \/ BumpContact(id, fail)
                \/ \E t \in TypeArgs, n \in MarkNotesArgs : MarkContacted(id, t, n, fail) )
              => C13_RolledBack
        /\ BumpContact(id, "none") =>
              /\ err' = ""
              /\ contacts'[id].LastBumpDate = SomeTime(now)
              /\ contacts'[id].BumpCount = contacts[id].BumpCount + 1
              /\ C13_OneLogAdded(id, "bump")
        /\ \A t \in TypeArgs, n \in MarkNotesArgs :
              MarkContacted(id, t, n, "none") =>
                 /\ err' = ""
                 /\ contacts'[id].ContactedAt = SomeTime(now)
                 /\ C13_OneLogAdded(id, t)

\* C13: MarkContacted and BumpContact are atomic.  When the contact write
\* went through and the log insert or the commit then fails, the call returns
\* an error and neither the contact change nor a log row is visible; when the
\* call succeeds the contact change is visible and exactly one log row, of
\* this contact, was added.
C13_Atomic == [][C13_TxSteps]_vars

\* One bump went through (count 1, its log row 1), then a call failed and
\* left both tables as the bump had left them.
C13_Witness ==
    /\ Exists(1)
    /\ calls = 2
    /\ err = "error"
    /\ contacts[1].BumpCount = 1
    /\ contacts[1].LastBumpDate = SomeTime(0)
    /\ DOMAIN logs = {1}
    /\ logs[1].InteractionType = "bump"
    /\ nextLogID = 2

\* ---- C14 ----------------------------------------------------------------

C14_MarkStep(id) ==
    \E t \in TypeArgs, n \in MarkNotesArgs : MarkContacted(id, t, n, "none")

C14_WriteStep(id) ==
    \/ \E c \in EditInputs : UpdateContact(id, c, "none") /\ err' = ""
    \/ \E s \in StateArgs : UpdateContactState(id, s, "none") /\ err' = ""
    \/ \E c \in StyleCalls : UpdateContactStyle(id, c[1], c[2], "none")
    \/ ArchiveContact(id, "none")
    \/ UnarchiveContact(id, "none")

C14_MarkKeepsUpdatedAtStep ==
    \A id \in DOMAIN contacts :
        /\ C14_MarkStep(id) =>
              /\ contacts'[id].ContactedAt = SomeTime(now)
              /\ contacts'[id].UpdatedAt = contacts[id].UpdatedAt
        /\ C14_WriteStep(id) => contacts'[id].UpdatedAt = now

\* The statement as written: MarkContacted sets contactedAt to now and leaves
\* updatedAt as it was, and the other writes set updatedAt.
C14_MarkKeepsUpdatedAt == [][C14_MarkKeepsUpdatedAtStep]_vars

\* The step leaves the row with updatedAt = now, a new value when the clock
\* has moved since the row's last write.
C14_UpdatedAtSet(id) ==
    /\ id \in DOMAIN contacts'
    /\ contacts'[id].UpdatedAt = now
    /\ contacts[id].UpdatedAt < now =>
          contacts'[id].UpdatedAt # contacts[id].UpdatedAt

C14_TouchingSteps ==
    \A id \in DOMAIN contacts :
        /\ C14_MarkStep(id) =>
              /\ contacts'[id].ContactedAt = SomeTime(now)
              /\ contacts'[id].UpdatedAt = now
              /\ SameBut(contacts'[id], contacts[id], {"ContactedAt", "UpdatedAt"})
        /\ C14_UpdatedAtSet(id) \/ ~C14_WriteStep(id)

\* C14: MarkContacted sets contactedAt to now and, through the trigger on
\* the contacts table, updatedAt to now as well; UpdateContact,
\* UpdateContactState, UpdateContactStyle, ArchiveContact and UnarchiveContact
\* each set updatedAt to now, which changes it whenever the clock has moved
\* since the last write.
C14_MarkTouchesUpdatedAt == [][C14_TouchingSteps]_vars

\* The sample contact marked as contacted one tick after it was created.
C14_Witness ==
    /\ Exists(1)
    /\ calls = 1
    /\ err = ""
    /\ now = 1
    /\ contacts[1].ContactedAt = SomeTime(1)
    /\ contacts[1].UpdatedAt = 1
    /\ contacts[1].BumpCount = 0

\* ---- C15 ----------------------------------------------------------------

C15_NotesSteps ==
    \A id \in DOMAIN contacts, t \in TypeArgs :
        /\ \A fail \in ExecFailures :
              AddInteractionNote(id, t, "", fail) =>
                 /\ err' = "error"
                 /\ UNCHANGED <<contacts, logs, nextContactID, nextLogID>>
        /\ MarkContacted(id, t, "", "none") =>
              /\ err' = ""
              /\ C13_OneLogAdded(id, t)
              /\ logs'[nextLogID].Notes = [Valid |-> TRUE, String |-> ""]
        /\ \A n \in NotesArgs \ {""} :
              AddInteractionNote(id, t, n, "none") =>
                 /\ err' = ""
                 /\ C13_OneLogAdded(id, t)
                 /\ logs'[nextLogID].Notes = [Valid |-> TRUE, String |-> n]
                 /\ contacts' = contacts

\* C15: AddInteractionNote with empty notes returns an error before any
\* statement runs and adds no log row; MarkContacted with empty notes
\* succeeds and adds its log row; a successful AddInteractionNote adds one
\* log row and changes no field of any contact.
C15_EmptyNotes == [][C15_NotesSteps]_vars

\* A note "n" at tick 0, a mark with empty notes at tick 1, then a failed call.
C15_Witness ==
    /\ calls = 3
    /\ err = "error"
    /\ DOMAIN logs = {1, 2}
    /\ logs[1].Notes.String = "n" /\ logs[1].InteractionDate = 0
    /\ logs[2].Notes.String = "" /\ logs[2].InteractionDate = 1
    /\ nextLogID = 3
    /\ Exists(1)
    /\ contacts[1].ContactedAt = SomeTime(1)

\* ---- C16 ----------------------------------------------------------------

C16_DeleteSteps ==
    \A id \in DOMAIN contacts :
        /\ DeleteContact(id, "none") =>
              /\ err' = ""
              /\ DOMAIN contacts' = DOMAIN contacts \ {id}
              /\ \A other \in DOMAIN contacts' : contacts'[other] = contacts[other]
              /\ DOMAIN logs' = DOMAIN logs \ LogsOf(id)
              /\ \A l \in DOMAIN logs' : logs'[l] = logs[l]
              /\ GetContact(id)' = [err |-> "error", contact |-> <<>>]
        /\ \A fail \in TxFailures \ {"none"} :
              DeleteContact(id, fail) =>
                 /\ err' = "error"
                 /\ UNCHANGED <<contacts, logs>>

\* An id that was given out and has no row gets none again.
C16_StaysDeleted ==
    \A id \in ContactIDs :
        (id < nextContactID /\ GetContact(id).err = "error")
            => GetContact(id)'.err = "error"

\* C16: DeleteContact on a contact with N log rows removes the contact row and
\* all N log rows in one transaction (a failure at any statement or at the
\* commit removes nothing), leaves every other contact and every other log
\* row as it was, and GetContact of the id reports no row from then on.
C16_DeleteContact == [][C16_DeleteSteps /\ C16_StaysDeleted]_vars

\* A second contact was added, the sample contact got a log row, and the
\* sample contact was deleted: its log row is gone, the second contact stays.
C16_Witness ==
    /\ calls = 3
    /\ err = ""
    /\ GetContact(1).err = "error"
    /\ GetContact(2).err = ""
    /\ DOMAIN logs = {}
    /\ nextLogID = 2

\* ---- C17 ----------------------------------------------------------------

\* C17: in every state a contact whose contactStyle is not periodic has no
\* customFrequencyDays, UpdateContactStyle with ambient or triggered having
\* cleared it whatever frequency the caller passed.
C17_NonPeriodicHasNoFrequency ==
    \A id \in DOMAIN contacts :
        contacts[id].ContactStyle # "periodic"
            => ~contacts[id].CustomFrequencyDays.Valid

\* ---- C18 ----------------------------------------------------------------

C18_ContactCall(id) ==
    \/ \E t \in TypeArgs, n \in MarkNotesArgs : MarkContacted(id, t, n, "none")
    \/ BumpContact(id, "none")
    \/ \E t \in TypeArgs, n \in NotesArgs : AddInteractionNote(id, t, n, "none")
    \/ \E s \in StateArgs : UpdateContactState(id, s, "none")
    \/ \E c \in StyleCalls : UpdateContactStyle(id, c[1], c[2], "none")
    \/ \E c \in EditInputs : UpdateContact(id, c, "none")
    \/ ArchiveContact(id, "none")
    \/ UnarchiveContact(id, "none")
    \/ DeleteContact(id, "none")

C18_LogCall(id) ==
    \/ \E t \in EditTypeArgs, n \in EditNotesArgs : UpdateInteraction(id, t, n, "none")
    \/ DeleteInteraction(id, "none")

C18_MissingIDSteps ==
    /\ \A id \in IDArgs \ DOMAIN contacts :
          C18_ContactCall(id) => (err' = "error" /\ UNCHANGED <<contacts, logs>>)
    /\ \A id \in LogIDArgs \ DOMAIN logs :
          C18_LogCall(id) => (err' = "error" /\ UNCHANGED <<contacts, logs>>)

\* C18: every call that names a contact id or a log id matching no row
\* returns an error and leaves all contacts and all log rows as they were.
C18_MissingIDRejected == [][C18_MissingIDSteps]_vars

\* ---- C19 ----------------------------------------------------------------

\* C19: in every state each contact's relationshipType is one of the seven
\* types, its state is absent or one of the nine states, and its
\* contactStyle is one of the three styles, the writes having rejected every
\* other value.
C19_Vocabulary ==
    \A id \in DOMAIN contacts :
        /\ contacts[id].RelationshipType \in RelationshipTypes
        /\ ~contacts[id].State.Valid \/ contacts[id].State.String \in ContactStates
        /\ contacts[id].ContactStyle \in ContactStyles

\* ---- C20 ----------------------------------------------------------------

C20_DefaultState(contact) ==
    IF contact.State.Valid THEN contact.State ELSE [Valid |-> TRUE, String |-> "ok"]

C20_AddSteps ==
    \A c \in ContactInputs :
        (AddContact(c, "none") /\ err' = "") =>
            /\ DOMAIN contacts' = DOMAIN contacts \cup {nextContactID}
            /\ contacts'[nextContactID].State = C20_DefaultState(c)
            /\ contacts'[nextContactID].ContactStyle = "periodic"
            /\ contacts'[nextContactID].ContactedAt = NoTime
            /\ contacts'[nextContactID].LastBumpDate = NoTime
            /\ contacts'[nextContactID].BumpCount = 0
            /\ contacts'[nextContactID].Archived = FALSE
            /\ logs' = logs

\* C20: the contact AddContact creates has state ok when the caller gave no
\* state, contactStyle periodic, contactedAt and lastBumpDate absent,
\* bumpCount 0 and archived false, and the call adds no log row.
C20_AddDefaults == [][C20_AddSteps]_vars

\* ---- C21 ----------------------------------------------------------------

\* C21: in every state every stored contact has a non-empty name, AddContact
\* and UpdateContact having rejected an empty one.
C21_NameNonEmpty ==
    \A id \in DOMAIN contacts : contacts[id].Name # ""

(***************************************************************************)
(* The task manager (internal/tasks): the registry of backends and          *)
(* NewManager's choice of one.  The environment env says which backend     *)
(* packages are linked in (registered by their init) and which task         *)
(* programs the machine has (what each backend's IsEnabled reports).        *)
(***************************************************************************)
BackendNames == {"taskwarrior", "dstask", "things"}

\* Registry.Create: the noop backend registers itself in package tasks.
CreateBackend(env, name) ==
    IF name = "noop" \/ name \in env.registered
    THEN [err |-> "", backend |-> name]
    ELSE [err |-> "error", backend |-> "nil"]

\* Backend.IsEnabled: NoopBackend answers false, the others their program's
\* availability.
IsEnabled(env, backend) == backend # "noop" /\ backend \in env.available

backendPreference == <<"taskwarrior", "dstask", "noop">>

\* The for loop of NewManager from index i on: the first name of the list
\* that can be created and is enabled, or nil.
RECURSIVE TryBackends(_, _, _)
TryBackends(env, names, i) ==
    IF i > Len(names) THEN "nil"
    ELSE LET b == CreateBackend(env, names[i])
         IN IF b.err # "" THEN TryBackends(env, names, i + 1)
            ELSE IF IsEnabled(env, b.backend) THEN b.backend
            ELSE TryBackends(env, names, i + 1)

NewManager(env, backendName) ==
    IF backendName # ""
    THEN LET b == CreateBackend(env, backendName)
         IN IF b.err # ""
            THEN [err |-> "error", manager |-> "nil"]
            ELSE [err |-> "", manager |-> b.backend]
    ELSE LET backend == TryBackends(env, backendPreference, 1)
         IN IF backend = "nil" \/ ~IsEnabled(env, backend)
            THEN [err |-> "", manager |-> CreateBackend(env, "noop").backend]
            ELSE [err |-> "", manager |-> backend]

BackendNameArgs == {"", "things", "jira"}

ManagerInputs ==
    [backendName : BackendNameArgs,
     registered : SUBSET BackendNames,
     available : SUBSET BackendNames]

InitManager ==
    /\ contacts = <<>>
    /\ logs = <<>>
    /\ nextContactID = 1
    /\ nextLogID = 1
    /\ err = ""
    /\ calls = 0
    /\ now = 0
    /\ arg \in ManagerInputs
    /\ ret = [err |-> "", manager |-> "nil"]
    /\ pc = "input"
    /\ NoTUI

CallNewManager ==
    /\ pc = "input"
    /\ ret' = NewManager(arg, arg.backendName)
    /\ pc' = "done"
    /\ UNCHANGED <<dbVars, calls, now, arg, tuiVars>>

SpecManager == InitManager /\ [][CallNewManager]_vars

\* ---- C22 ----------------------------------------------------------------

\* A backend is available when it is linked in and its program is there.
C22_Available(env, name) == name \in env.registered /\ name \in env.available

C22_FirstAvailable(env) ==
    IF C22_Available(env, "taskwarrior") THEN "taskwarrior"
    ELSE IF C22_Available(env, "dstask") THEN "dstask"
    ELSE IF C22_Available(env, "things") THEN "things"
    ELSE "noop"

\* C22: with no backend name configured NewManager takes the first available
\* backend in the order TaskWarrior, dstask, Things 3, takes noop only when
\* none of the three is available, and the manager holds a non-nil backend.
C22_AutoDetection ==
    (pc = "done" /\ arg.backendName = "") =>
        /\ ret.err = ""
        /\ ret.manager # "nil"
        /\ ret.manager = C22_FirstAvailable(arg)

\* ---- C24 ----------------------------------------------------------------

\* IsOverdue of the row turns true exactly when more than days days have
\* passed since its last interaction.
C24_ThresholdIs(row, days) ==
    LET last == LastInteraction(row).Time
    IN /\ ~IsOverdue(row, last + days * TicksPerDay)
       /\ IsOverdue(row, last + days * TicksPerDay + 1)

C24_PeriodicSteps ==
    \A id \in DOMAIN contacts, d \in FrequencyArgs :
        UpdateContactStyle(id, "periodic", d, "none") =>
            /\ err' = ""
            /\ contacts'[id].ContactStyle = "periodic"
            /\ contacts'[id].CustomFrequencyDays = d
            /\ (d.Valid /\ Active(contacts'[id]) /\ Engaged(contacts'[id]))
                  => C24_ThresholdIs(contacts'[id], d.Int64)

C25_EditedColumns ==
    {"Name", "Email", "Phone", "Company", "Notes", "Label", "RelationshipType"}

\* Only the row id changed, and in it only the columns named and updatedAt;
\* the log rows are as they were.
C25_OnlyColumns(id, columns) ==
    /\ DOMAIN contacts' = DOMAIN contacts
    /\ \A other \in DOMAIN contacts \ {id} : contacts'[other] = contacts[other]
    /\ SameBut(contacts'[id], contacts[id], columns \cup {"UpdatedAt"})
    /\ contacts'[id].UpdatedAt = now
    /\ logs' = logs
    /\ nextLogID' = nextLogID

C25_FieldSteps ==
    \A id \in DOMAIN contacts :
        /\ \A c \in EditInputs :
              (UpdateContact(id, c, "none") /\ err' = "") =>
                 /\ \A f \in C25_EditedColumns : contacts'[id][f] = c[f]
                 /\ C25_OnlyColumns(id, C25_EditedColumns)
        /\ \A st \in StateArgs :
              (UpdateContactState(id, st, "none") /\ err' = "") =>
                 /\ contacts'[id].State = [Valid |-> TRUE, String |-> st]
                 /\ C25_OnlyColumns(id, {"State"})

\* C25: UpdateContact overwrites only name, email, phone, company, notes,
\* label and relationshipType, and UpdateContactState only state; both set
\* updatedAt, leave every other column of the contact, every other contact
\* and every log row as they were, and add no log row.
C25_Frame == [][C25_FieldSteps]_vars

\* The sample contact, bumped at tick 0 and edited at tick 1: the edit's
\* fields are stored, the state and the bump are as before.
C25_Witness ==
    /\ Exists(1)
    /\ calls = 2
    /\ err = ""
    /\ now = 1
    /\ contacts[1].Name = "Bob"
    /\ contacts[1].RelationshipType = "close"
    /\ contacts[1].State = [Valid |-> TRUE, String |-> "ok"]
    /\ contacts[1].BumpCount = 1
    /\ contacts[1].LastBumpDate = SomeTime(0)
    /\ contacts[1].UpdatedAt = 1
    /\ DOMAIN logs = {1}

\* ---- C26 ----------------------------------------------------------------

C26_LogSteps ==
    \A lid \in DOMAIN logs :
        /\ \A t \in EditTypeArgs, n \in EditNotesArgs :
              UpdateInteraction(lid, t, n, "none") =>
                 /\ err' = ""
                 /\ DOMAIN logs' = DOMAIN logs
                 /\ logs'[lid] = [logs[lid] EXCEPT !.InteractionType = t,
                                                   !.Notes = [Valid |-> TRUE, String |-> n]]
                 /\ logs'[lid].ContactID = logs[lid].ContactID
                 /\ logs'[lid].InteractionDate = logs[lid].InteractionDate
                 /\ \A other \in DOMAIN logs \ {lid} : logs'[other] = logs[other]
                 /\ contacts' = contacts
        /\ DeleteInteraction(lid, "none") =>
              /\ err' = ""
              /\ DOMAIN logs' = DOMAIN logs \ {lid}
              /\ \A other \in DOMAIN logs' : logs'[other] = logs[other]
              /\ contacts' = contacts

\* C26: UpdateInteraction changes only the type and the notes of the one
\* log row and DeleteInteraction removes only that row; the row's contact
\* id and interactionDate, every other log row and every field of every
\* contact (bumpCount, lastBumpDate and contactedAt of the owner included)
\* stay as they were.
C26_SingleLogRow == [][C26_LogSteps]_vars

\* The sample contact marked at tick 0, its log row edited at tick 1: the
\* row keeps its owner and date, the contact its contactedAt.
C26_Witness ==
    /\ Exists(1)
    /\ calls = 2
    /\ err = ""
    /\ now = 1
    /\ DOMAIN logs = {1}
    /\ logs[1].InteractionType = "call"
    /\ logs[1].Notes = [Valid |-> TRUE, String |-> "edited"]
    /\ logs[1].ContactID = 1
    /\ logs[1].InteractionDate = 0
    /\ contacts[1].ContactedAt = SomeTime(0)
    /\ contacts[1].UpdatedAt = 0

\* ---- C29 ----------------------------------------------------------------

\* C29: in every state the contact id of each log row is the id of a stored
\* contact.
C29_LogsHaveOwner ==
    \A l \in DOMAIN logs : logs[l].ContactID \in DOMAIN contacts
(***************************************************************************)
(* The TUI (internal/tui/app.go): Model, filteredContacts,                 *)
(* ensureValidSelection and the key handlers of Model.Update that reach    *)
(* the contacts table.  A text input is modelled by the value it holds     *)
(* when the handler reads it; the cursor of a pick list by the entry that  *)
(* enter applies.  The help overlay, the note, interaction and task views  *)
(* write no contact and move no selection, and are left out.               *)
(***************************************************************************)
MaxKeys == 5

\* ORDER BY name (BINARY collation) over the names of the model; rows of equal
\* name come in rowid order.
NameOrder == <<"", "Ann", "Bob", "Jane Doe", "Sample Contact">>
NameRank(name) == CHOOSE i \in 1..Len(NameOrder) : NameOrder[i] = name
NameBefore(table, a, b) ==
    \/ NameRank(table[a].Name) < NameRank(table[b].Name)
    \/ NameRank(table[a].Name) = NameRank(table[b].Name) /\ a < b

\* ListContacts: every row, archived ones too, ordered by name.  A db.Contact
\* is the id and the scanned columns.  (The names of the model carry no
\* newline or outer blank, so the clean-up of the name changes none.)
ListContacts(table) ==
    [i \in 1..Cardinality(DOMAIN table) |->
        LET id == CHOOSE c \in DOMAIN table :
                    Cardinality({o \in DOMAIN table : NameBefore(table, o, c)}) = i - 1
        IN [ID |-> id, Row |-> table[id]]]

\* strings.ToLower and strings.Contains over the strings of the model.
ToLower(str) ==
    CASE str = "Ann" -> "ann"
      [] str = "Bob" -> "bob"
      [] str = "Jane Doe" -> "jane doe"
      [] str = "Sample Contact" -> "sample contact"
      [] str = "Example Corp" -> "example corp"
      [] OTHER -> str
StringsContains(str, substr) ==
    \/ substr = ""
    \/ substr = "bo" /\ str \in {"bob", "@bob"}
    \/ substr = "sam" /\ str \in {"sample contact", "@sample"}

\* strings.HasPrefix(label, "@") over the labels of the model.
HasAtPrefix(label) == label \in {"@sample", "@bob", "@ann"}
WithAtPrefix(label) == IF HasAtPrefix(label) THEN label ELSE "@" \o label

\* tui.New: the contacts are loaded, every mode and filter is off.
NewModel(table) ==
    [contacts |-> ListContacts(table),
     selected |-> 0,
     filter |-> "",
     err |-> "",
     successMsg |-> "",
     stateFilter |-> FALSE,
     overdueFilter |-> FALSE,
     typeFilter |-> "",
     showArchived |-> FALSE,
     filterMode |-> FALSE,
     typeFilterMode |-> FALSE,
     stateMode |-> FALSE,
     editMode |-> FALSE,
     newContactMode |-> FALSE,
     styleMode |-> FALSE,
     customFreqMode |-> FALSE,
     styleContactID |-> 0,
     bumpConfirmMode |-> FALSE,
     bumpContactID |-> 0,
     deleteConfirmMode |-> FALSE,
     deleteContactID |-> 0,
     labelPromptMode |-> FALSE,
     labelPromptContactID |-> 0,
     labelPromptNewState |-> ""]

FilterMatches(mm, c) ==
    /\ mm.showArchived \/ ~c.Row.Archived
    /\ mm.typeFilter # "" => c.Row.RelationshipType = mm.typeFilter
    /\ mm.stateFilter => c.Row.State.Valid /\ c.Row.State.String # "ok"
    /\ mm.overdueFilter => IsOverdue(c.Row, now)
    /\ mm.filter # "" =>
          \/ StringsContains(ToLower(c.Row.Name), ToLower(mm.filter))
          \/ c.Row.Label.Valid
               /\ StringsContains(ToLower(c.Row.Label.String), ToLower(mm.filter))
          \/ c.Row.Company.Valid
               /\ StringsContains(ToLower(c.Row.Company.String), ToLower(mm.filter))

filteredContacts(mm) == SelectSeq(mm.contacts, LAMBDA c : FilterMatches(mm, c))

ensureValidSelection(mm) ==
    LET n == Len(filteredContacts(mm))
    IN IF n = 0 THEN 0
       ELSE IF mm.selected >= n THEN n - 1
       ELSE IF mm.selected < 0 THEN 0
       ELSE mm.selected

\* m.selected = m.ensureValidSelection()
Reselected(mm) == [mm EXCEPT !.selected = ensureValidSelection(mm)]

\* contacts := m.filteredContacts(); if len(contacts) > 0 && m.selected <
\* len(contacts) { contact := contacts[m.selected] ... }: the selected contact
\* in a one-element sequence, or the empty sequence.
SelectedContact(mm) ==
    LET cs == filteredContacts(mm)
    IN IF Len(cs) > 0 /\ mm.selected < Len(cs) THEN <<cs[mm.selected + 1]>> ELSE <<>>

\* if newContacts, err := m.db.ListContacts(); err == nil { m.contacts = newContacts }
\* read after the storage call of the same handler has written.
Reloaded(mm) == [mm EXCEPT !.contacts = ListContacts(contacts')]

\* The modes Update tests before it reads a key as a command.
InMode(mm) ==
    \/ mm.typeFilterMode \/ mm.bumpConfirmMode \/ mm.deleteConfirmMode
    \/ mm.labelPromptMode \/ mm.newContactMode \/ mm.editMode \/ mm.stateMode
    \/ mm.styleMode \/ mm.filterMode

\* One key event is handled.
KeyMsg ==
    /\ keys < MaxKeys
    /\ keys' = keys + 1

\* A handler that makes no storage call.
NoStorageCall == UNCHANGED <<dbVars, calls, now, callVars>>
\* taskwarrior.Client: IsEnabled, and CreateContactTask, which runs `task add
\* <description> +<label>`; taskFail is the outcome of the command.
ClientIsEnabled == taskwarrior.enabled

\* Variant: the command is not run.
CreateContactTaskDropped(contactName, state, label, taskFail) ==
    [err |-> "", tasks |-> taskwarrior.tasks]

CreateContactTask(contactName, state, label, taskFail) ==
    IF ~taskwarrior.enabled \/ label = "" \/ taskFail # "none"
    THEN [err |-> "error", tasks |-> taskwarrior.tasks]
    ELSE [err |-> "",
          tasks |-> Append(taskwarrior.tasks,
                           [contactName |-> contactName, state |-> state,
                            tag |-> "+" \o WithAtPrefix(label)])]

\* UPDATE contacts SET label = ? WHERE id = ?
UpdateContactLabel(contactID, label, fail) ==
    /\ Called
    /\ IF fail # "none"
       THEN Failed
       ELSE /\ err' = ""
            /\ UNCHANGED <<logs, nextContactID, nextLogID>>
            /\ contacts' =
                  IF Exists(contactID)
                  THEN [contacts EXCEPT ![contactID] =
                          Touch([@ EXCEPT !.Label = [Valid |-> TRUE, String |-> label]])]
                  ELSE contacts

\* What the user enters.
NewContactInputs ==
    {ContactInput("Ann", "network", "ok", "", FALSE),
     ContactInput("", "network", "ok", "", FALSE)}
TUIEditInputs == {c \in EditInputs : c.RelationshipType \in RelationshipTypes}
TUIStateArgs == {"ok", "ping"}
TypeFilterArgs == {"all", "network", "close"}
FilterTexts == {"", "bo"}
LabelArgs == {"", "ann", "@sample"}
TaskFailures == {"none", "exec"}
CommitFailures == {"none", "commit"}

(***************************************************************************)
(* Model.Update, normal mode.                                              *)
(***************************************************************************)
\* "+", "N"
KeyNewContact ==
    /\ KeyMsg /\ ~InMode(m) /\ NoStorageCall /\ UNCHANGED taskwarrior
    /\ m' = [m EXCEPT !.newContactMode = TRUE]

\* "r"
KeyTypeFilter ==
    /\ KeyMsg /\ ~InMode(m) /\ NoStorageCall /\ UNCHANGED taskwarrior
    /\ m' = [m EXCEPT !.typeFilterMode = TRUE]

\* "j", "down"
KeyDown ==
    /\ KeyMsg /\ ~InMode(m) /\ NoStorageCall /\ UNCHANGED taskwarrior
    /\ m' = IF m.selected < Len(filteredContacts(m)) - 1
            THEN [m EXCEPT !.selected = @ + 1] ELSE m

\* "k", "up"
KeyUp ==
    /\ KeyMsg /\ ~InMode(m) /\ NoStorageCall /\ UNCHANGED taskwarrior
    /\ m' = IF m.selected > 0 THEN [m EXCEPT !.selected = @ - 1] ELSE m

\* "/"
KeySlash ==
    /\ KeyMsg /\ ~InMode(m) /\ NoStorageCall /\ UNCHANGED taskwarrior
    /\ m' = [m EXCEPT !.filterMode = TRUE, !.filter = ""]

\* "esc"
KeyEsc ==
    /\ KeyMsg /\ ~InMode(m) /\ NoStorageCall /\ UNCHANGED taskwarrior
    /\ m' = IF m.err # "" THEN [m EXCEPT !.err = ""]
            ELSE IF m.successMsg # "" THEN [m EXCEPT !.successMsg = ""]
            ELSE IF m.filter # "" THEN Reselected([m EXCEPT !.filter = ""])
            ELSE m

\* "s"
KeyState ==
    /\ KeyMsg /\ ~InMode(m) /\ NoStorageCall /\ UNCHANGED taskwarrior
    /\ m' = IF SelectedContact(m) # <<>> THEN [m EXCEPT !.stateMode = TRUE] ELSE m

\* "S"
KeyStateFilter ==
    /\ KeyMsg /\ ~InMode(m) /\ NoStorageCall /\ UNCHANGED taskwarrior
    /\ m' = Reselected([m EXCEPT !.stateFilter = ~@])

\* "o"
KeyOverdueFilter ==
    /\ KeyMsg /\ ~InMode(m) /\ NoStorageCall /\ UNCHANGED taskwarrior
    /\ m' = Reselected([m EXCEPT !.overdueFilter = ~@])

\* "A"
KeyShowArchived ==
    /\ KeyMsg /\ ~InMode(m) /\ NoStorageCall /\ UNCHANGED taskwarrior
    /\ m' = Reselected([m EXCEPT !.showArchived = ~@])

\* "C"
KeyClearFilters ==
    /\ KeyMsg /\ ~InMode(m) /\ NoStorageCall /\ UNCHANGED taskwarrior
    /\ m' = Reselected([m EXCEPT !.stateFilter = FALSE, !.overdueFilter = FALSE,
                                 !.typeFilter = "", !.showArchived = FALSE,
                                 !.filter = ""])

\* Variant: the contact is taken from the unfiltered list.
KeyBumpUnfiltered ==
    /\ KeyMsg /\ ~InMode(m) /\ NoStorageCall /\ UNCHANGED taskwarrior
    /\ m' = IF SelectedContact(m) # <<>>
            THEN [m EXCEPT !.bumpConfirmMode = TRUE,
                           !.bumpContactID = m.contacts[m.selected + 1].ID]
            ELSE m

\* "b"
KeyBump ==
    /\ KeyMsg /\ ~InMode(m) /\ NoStorageCall /\ UNCHANGED taskwarrior
    /\ m' = IF SelectedContact(m) # <<>>
            THEN [m EXCEPT !.bumpConfirmMode = TRUE,
                           !.bumpContactID = SelectedContact(m)[1].ID]
            ELSE m

\* "D"
KeyDelete ==
    /\ KeyMsg /\ ~InMode(m) /\ NoStorageCall /\ UNCHANGED taskwarrior
    /\ m' = IF SelectedContact(m) # <<>>
            THEN [m EXCEPT !.deleteConfirmMode = TRUE,
                           !.deleteContactID = SelectedContact(m)[1].ID]
            ELSE m

\* "e"
KeyEdit ==
    /\ KeyMsg /\ ~InMode(m) /\ NoStorageCall /\ UNCHANGED taskwarrior
    /\ m' = IF SelectedContact(m) # <<>> THEN [m EXCEPT !.editMode = TRUE] ELSE m

\* "m"
KeyStyle ==
    /\ KeyMsg /\ ~InMode(m) /\ NoStorageCall /\ UNCHANGED taskwarrior
    /\ m' = IF SelectedContact(m) # <<>>
            THEN [m EXCEPT !.styleMode = TRUE,
                           !.styleContactID = SelectedContact(m)[1].ID]
            ELSE m

\* The storage call of a handler returned: m.err = err, or the contacts are
\* reloaded and the selection is kept within bounds.
AfterMutation(mm) ==
    IF err' # "" THEN [mm EXCEPT !.err = "error"] ELSE Reselected(Reloaded(mm))

\* "c"
KeyMarkContacted(fail) ==
    /\ KeyMsg /\ ~InMode(m) /\ UNCHANGED taskwarrior
    /\ IF SelectedContact(m) = <<>>
       THEN NoStorageCall /\ UNCHANGED m
       ELSE /\ MarkContacted(SelectedContact(m)[1].ID, "manual", "Marked via TUI", fail)
            /\ m' = AfterMutation(m)

\* "a"
KeyArchive(fail) ==
    /\ KeyMsg /\ ~InMode(m) /\ UNCHANGED taskwarrior
    /\ IF SelectedContact(m) = <<>>
       THEN NoStorageCall /\ UNCHANGED m
       ELSE /\ IF SelectedContact(m)[1].Row.Archived
               THEN UnarchiveContact(SelectedContact(m)[1].ID, fail)
               ELSE ArchiveContact(SelectedContact(m)[1].ID, fail)
            /\ m' = AfterMutation(m)
(***************************************************************************)
(* Model.Update, the modes.                                                *)
(***************************************************************************)
\* typeFilterMode: "esc"
TypeFilterEsc ==
    /\ KeyMsg /\ m.typeFilterMode /\ NoStorageCall /\ UNCHANGED taskwarrior
    /\ m' = [m EXCEPT !.typeFilterMode = FALSE]

\* typeFilterMode: "enter" on an entry of RelationshipTypes, or its hotkey
TypeFilterEnter(selected) ==
    /\ KeyMsg /\ m.typeFilterMode /\ NoStorageCall /\ UNCHANGED taskwarrior
    /\ m' = Reselected([m EXCEPT !.typeFilter = IF selected = "all" THEN "" ELSE selected,
                                 !.typeFilterMode = FALSE])

\* bumpConfirmMode: "y", "Y"
BumpConfirmYes(fail) ==
    /\ KeyMsg /\ m.bumpConfirmMode /\ UNCHANGED taskwarrior
    /\ BumpContact(m.bumpContactID, fail)
    /\ m' = [AfterMutation(m) EXCEPT !.bumpConfirmMode = FALSE, !.bumpContactID = 0]

\* bumpConfirmMode: any other key
BumpConfirmCancel ==
    /\ KeyMsg /\ m.bumpConfirmMode /\ NoStorageCall /\ UNCHANGED taskwarrior
    /\ m' = [m EXCEPT !.bumpConfirmMode = FALSE, !.bumpContactID = 0]

\* deleteConfirmMode: "y", "Y"
DeleteConfirmYes(fail) ==
    /\ KeyMsg /\ ~m.bumpConfirmMode /\ m.deleteConfirmMode /\ UNCHANGED taskwarrior
    /\ DeleteContact(m.deleteContactID, fail)
    /\ m' = [AfterMutation(m) EXCEPT !.deleteConfirmMode = FALSE, !.deleteContactID = 0]

\* deleteConfirmMode: any other key
DeleteConfirmCancel ==
    /\ KeyMsg /\ ~m.bumpConfirmMode /\ m.deleteConfirmMode
    /\ NoStorageCall /\ UNCHANGED taskwarrior
    /\ m' = [m EXCEPT !.deleteConfirmMode = FALSE, !.deleteContactID = 0]

\* labelPromptMode: "esc"
LabelPromptEsc ==
    /\ KeyMsg /\ m.labelPromptMode /\ NoStorageCall /\ UNCHANGED taskwarrior
    /\ m' = [m EXCEPT !.labelPromptMode = FALSE, !.labelPromptContactID = 0,
                      !.labelPromptNewState = ""]

\* labelPromptMode: "enter" with the input holding label
LabelPromptEnter(label, fail, taskFail) ==
    /\ KeyMsg /\ m.labelPromptMode
    /\ LET newLabel == WithAtPrefix(label)
           id == m.labelPromptContactID
           task == CreateContactTask(contacts[id].Name, m.labelPromptNewState,
                                     newLabel, taskFail)
           closed(mm) == [mm EXCEPT !.labelPromptMode = FALSE,
                                    !.labelPromptContactID = 0,
                                    !.labelPromptNewState = ""]
       IN IF label = ""
          THEN /\ NoStorageCall /\ UNCHANGED taskwarrior
               /\ m' = [m EXCEPT !.err = "label cannot be empty"]
          ELSE IF \E i \in 1..Len(m.contacts) :
                     /\ m.contacts[i].Row.Label.Valid
                     /\ m.contacts[i].Row.Label.String = newLabel
          THEN /\ NoStorageCall /\ UNCHANGED taskwarrior
               /\ m' = [m EXCEPT !.err = "label already exists"]
          ELSE /\ UpdateContactLabel(id, newLabel, fail)
               /\ IF err' # ""
                  THEN /\ UNCHANGED taskwarrior
                       /\ m' = [m EXCEPT !.err = "failed to update label"]
                  ELSE IF ~Exists(id)
                  THEN /\ UNCHANGED taskwarrior
                       /\ m' = closed(Reselected(Reloaded(m)))
                  ELSE /\ taskwarrior' = [taskwarrior EXCEPT !.tasks = task.tasks]
                       /\ m' = closed(Reselected(Reloaded(
                                 IF task.err # ""
                                 THEN [m EXCEPT !.err =
                                         "label added but task creation failed"]
                                 ELSE [m EXCEPT !.successMsg =
                                         "Added label and created task"])))

\* newContactMode: "esc"
NewContactEsc ==
    /\ KeyMsg /\ m.newContactMode /\ NoStorageCall /\ UNCHANGED taskwarrior
    /\ m' = [m EXCEPT !.newContactMode = FALSE]

\* for i, c := range m.filteredContacts() { if c.Name == newContact.Name {
\* m.selected = i; break } }
SelectByName(mm, name) ==
    LET cs == filteredContacts(mm)
        hits == {i \in 1..Len(cs) : cs[i].Row.Name = name}
    IN IF hits = {} THEN mm
       ELSE [mm EXCEPT !.selected = (CHOOSE i \in hits : \A j \in hits : i <= j) - 1]

\* newContactMode: "enter" with the form holding contact
NewContactEnter(contact, fail) ==
    /\ KeyMsg /\ m.newContactMode /\ UNCHANGED taskwarrior
    /\ IF contact.Name = ""
       THEN /\ NoStorageCall
            /\ m' = [m EXCEPT !.err = "name is required"]
       ELSE /\ AddContact(contact, fail)
            /\ m' = IF err' # ""
                    THEN [m EXCEPT !.err = "error"]
                    ELSE SelectByName(Reloaded([m EXCEPT !.newContactMode = FALSE]),
                                      contact.Name)

\* editMode: "esc"
EditEsc ==
    /\ KeyMsg /\ m.editMode /\ NoStorageCall /\ UNCHANGED taskwarrior
    /\ m' = [m EXCEPT !.editMode = FALSE]

\* editMode: ctrl+enter with the form holding contact
EditSave(contact, fail) ==
    /\ KeyMsg /\ m.editMode /\ UNCHANGED taskwarrior
    /\ IF SelectedContact(m) = <<>>
       THEN /\ NoStorageCall
            /\ m' = [m EXCEPT !.editMode = FALSE]
       ELSE /\ UpdateContact(SelectedContact(m)[1].ID, contact, fail)
            /\ m' = [(IF err' # "" THEN [m EXCEPT !.err = "error"] ELSE Reloaded(m))
                        EXCEPT !.editMode = FALSE]

\* stateMode: "esc"
StateEsc ==
    /\ KeyMsg /\ m.stateMode /\ NoStorageCall /\ UNCHANGED taskwarrior
    /\ m' = [m EXCEPT !.stateMode = FALSE]

\* stateMode: "enter" on an entry of ContactStates, or its hotkey
StateEnter(newState, fail, taskFail) ==
    /\ KeyMsg /\ m.stateMode
    /\ IF SelectedContact(m) = <<>>
       THEN /\ NoStorageCall /\ UNCHANGED taskwarrior
            /\ m' = [m EXCEPT !.stateMode = FALSE]
       ELSE LET contact == SelectedContact(m)[1]
                label == contact.Row.Label
                task == CreateContactTask(contact.Row.Name, newState,
                                          label.String, taskFail)
            IN /\ UpdateContactState(contact.ID, newState, fail)
               /\ IF err' # ""
                  THEN /\ UNCHANGED taskwarrior
                       /\ m' = [m EXCEPT !.err = "error", !.stateMode = FALSE]
                  ELSE IF newState # "ok" /\ ClientIsEnabled
                  THEN IF label.Valid /\ label.String # ""
                       THEN /\ taskwarrior' = [taskwarrior EXCEPT !.tasks = task.tasks]
                            /\ m' = [Reselected(Reloaded(
                                       IF task.err # ""
                                       THEN [m EXCEPT !.err =
                                               "state updated but task creation failed"]
                                       ELSE m))
                                     EXCEPT !.stateMode = FALSE]
                       ELSE /\ UNCHANGED taskwarrior
                            /\ m' = [m EXCEPT !.labelPromptMode = TRUE,
                                              !.labelPromptContactID = contact.ID,
                                              !.labelPromptNewState = newState,
                                              !.stateMode = FALSE]
                  ELSE /\ UNCHANGED taskwarrior
                       /\ m' = [Reselected(Reloaded(m)) EXCEPT !.stateMode = FALSE]

\* styleMode: "esc"; in the frequency input only the input is left
StyleEsc ==
    /\ KeyMsg /\ m.styleMode /\ NoStorageCall /\ UNCHANGED taskwarrior
    /\ m' = IF m.customFreqMode THEN [m EXCEPT !.customFreqMode = FALSE]
            ELSE [m EXCEPT !.styleMode = FALSE]

\* styleMode: "enter" on an entry of ContactStyles; periodic opens the
\* frequency input
StyleEnter(style, fail) ==
    /\ KeyMsg /\ m.styleMode /\ ~m.customFreqMode /\ UNCHANGED taskwarrior
    /\ IF style = "periodic"
       THEN /\ NoStorageCall
            /\ m' = [m EXCEPT !.customFreqMode = TRUE]
       ELSE /\ UpdateContactStyle(m.styleContactID, style, NoInt, fail)
            /\ m' = [(IF err' # "" THEN [m EXCEPT !.err = "error"] ELSE Reloaded(m))
                        EXCEPT !.styleMode = FALSE]

\* styleMode, frequency input: "enter".  fmt.Sscanf(freq, "%d", &customDays)
\* is handed a **int, which it cannot scan, so customDays is nil whatever
\* the input holds.
CustomFreqEnter(fail) ==
    /\ KeyMsg /\ m.styleMode /\ m.customFreqMode /\ UNCHANGED taskwarrior
    /\ UpdateContactStyle(m.styleContactID, "periodic", NoInt, fail)
    /\ m' = [(IF err' # "" THEN [m EXCEPT !.err = "error"] ELSE Reloaded(m))
                EXCEPT !.customFreqMode = FALSE, !.styleMode = FALSE]

\* filterMode: "esc"
FilterEsc ==
    /\ KeyMsg /\ m.filterMode /\ NoStorageCall /\ UNCHANGED taskwarrior
    /\ m' = Reselected([m EXCEPT !.filterMode = FALSE, !.filter = ""])

\* filterMode: "enter"
FilterEnter ==
    /\ KeyMsg /\ m.filterMode /\ NoStorageCall /\ UNCHANGED taskwarrior
    /\ m' = Reselected([m EXCEPT !.filterMode = FALSE])

\* filterMode: "up", "down"
FilterUp ==
    /\ KeyMsg /\ m.filterMode /\ NoStorageCall /\ UNCHANGED taskwarrior
    /\ m' = IF m.selected > 0 THEN [m EXCEPT !.selected = @ - 1] ELSE m

FilterDown ==
    /\ KeyMsg /\ m.filterMode /\ NoStorageCall /\ UNCHANGED taskwarrior
    /\ m' = IF m.selected < Len(filteredContacts(m)) - 1
            THEN [m EXCEPT !.selected = @ + 1] ELSE m

\* filterMode: a key the text input takes, leaving it with the value text
FilterInput(text) ==
    /\ KeyMsg /\ m.filterMode /\ NoStorageCall /\ UNCHANGED taskwarrior
    /\ m' = Reselected([m EXCEPT !.filter = text])

(***************************************************************************)
(* SpecTUI: the TUI is started on the database `contacts-tui -init` left,  *)
(* or on that database with a second contact, with or without TaskWarrior  *)
(* installed, and handles key events.                                      *)
(***************************************************************************)
annContact == ContactInput("Ann", "network", "ok", "", FALSE)

InitTUI ==
    /\ now = 0
    /\ contacts \in {(1 :> NewRow(sampleContact)),
                     (1 :> NewRow(sampleContact)) @@ (2 :> NewRow(annContact))}
    /\ logs = <<>>
    /\ nextContactID = Cardinality(DOMAIN contacts) + 1
    /\ nextLogID = 1
    /\ err = ""
    /\ calls = 0
    /\ arg = NoContact
    /\ ret = FALSE
    /\ pc = "idle"
    /\ m = NewModel(contacts)
    /\ taskwarrior \in {[enabled |-> e, tasks |-> <<>>] : e \in BOOLEAN}
    /\ keys = 0

NextTUI ==
    \/ KeyNewContact
    \/ KeyTypeFilter
    \/ KeyDown
    \/ KeyUp
    \/ KeySlash
    \/ KeyEsc
    \/ KeyState
    \/ KeyStateFilter
    \/ KeyOverdueFilter
    \/ KeyShowArchived
    \/ KeyClearFilters
    \/ KeyBump
    \/ KeyDelete
    \/ KeyEdit
    \/ KeyStyle
    \/ \E f \in CommitFailures : KeyMarkContacted(f)
    \/ \E f \in ExecFailures : KeyArchive(f)
    \/ TypeFilterEsc
    \/ \E t \in TypeFilterArgs : TypeFilterEnter(t)
    \/ \E f \in CommitFailures : BumpConfirmYes(f)
    \/ BumpConfirmCancel
    \/ \E f \in CommitFailures : DeleteConfirmYes(f)
    \/ DeleteConfirmCancel
    \/ LabelPromptEsc
    \/ \E l \in LabelArgs, f \in ExecFailures, tf \in TaskFailures :
          LabelPromptEnter(l, f, tf)
    \/ NewContactEsc
    \/ \E c \in NewContactInputs, f \in ExecFailures : NewContactEnter(c, f)
    \/ EditEsc
    \/ \E c \in TUIEditInputs, f \in ExecFailures : EditSave(c, f)
    \/ StateEsc
    \/ \E st \in TUIStateArgs, f \in ExecFailures, tf \in TaskFailures :
          StateEnter(st, f, tf)
    \/ StyleEsc
    \/ \E st \in ContactStyles, f \in ExecFailures : StyleEnter(st, f)
    \/ \E f \in ExecFailures : CustomFreqEnter(f)
    \/ FilterEsc
    \/ FilterEnter
    \/ FilterUp
    \/ FilterDown
    \/ \E t \in FilterTexts : FilterInput(t)

SpecTUI == InitTUI /\ [][NextTUI]_vars
(***************************************************************************)
(* Claims about the TUI, checked under SpecTUI.                            *)
(***************************************************************************)
\* The task `task add` is asked to create for a contact row and a state.
C23_TaskFor(row, state) ==
    [contactName |-> row.Name, state |-> state, tag |-> "+" \o row.Label.String]

C23_StateSteps ==
    \A st \in TUIStateArgs, tf \in TaskFailures :
        /\ m.stateMode
        /\ SelectedContact(m) # <<>>
        /\ StateEnter(st, "none", tf)
        => LET id == SelectedContact(m)[1].ID
               row == contacts[id]
               added == Len(taskwarrior'.tasks) - Len(taskwarrior.tasks)
           IN /\ contacts'[id].State = [Valid |-> TRUE, String |-> st]
              /\ st = "ok" => added = 0 /\ ~m'.labelPromptMode
              /\ /\ row.State = [Valid |-> TRUE, String |-> "ok"]
                 /\ st # "ok"
                 /\ ClientIsEnabled
                 => IF row.Label.Valid /\ row.Label.String # ""
                    THEN /\ ~m'.labelPromptMode
                         /\ IF tf = "none"
                            THEN taskwarrior'.tasks =
                                    Append(taskwarrior.tasks, C23_TaskFor(row, st))
                            ELSE added = 0
                    ELSE /\ added = 0
                         /\ m'.labelPromptMode
                         /\ m'.labelPromptContactID = id
                         /\ m'.labelPromptNewState = st

\* C23: when the state of a contact whose state is ok is changed in the TUI to
\* another state and TaskWarrior is enabled, exactly one task is created if the
\* contact has a label, and the label prompt opens for that contact and state
\* if it has none; choosing ok creates no task and opens no prompt; whenever
\* the storage call succeeds the chosen state is the stored state, also when
\* the task command fails (then no task is created).
C23_TaskOnStateChange == [][C23_StateSteps]_vars

\* The sample contact, labelled @sample, has been moved from ok to ping with
\* two keys ("s", enter) and its one task exists.
C23_Witness ==
    /\ keys = 2
    /\ Exists(1)
    /\ contacts[1].State.String = "ping"
    /\ taskwarrior.tasks = <<C23_TaskFor(contacts[1], "ping")>>
\* "b" and "D" open the confirmation on the selected contact and call nothing.
C27_Opens ==
    /\ ~m.bumpConfirmMode /\ m'.bumpConfirmMode
       => /\ SelectedContact(m) # <<>>
          /\ m'.bumpContactID = SelectedContact(m)[1].ID
          /\ UNCHANGED <<dbVars, calls>>
    /\ ~m.deleteConfirmMode /\ m'.deleteConfirmMode
       => /\ SelectedContact(m) # <<>>
          /\ m'.deleteContactID = SelectedContact(m)[1].ID
          /\ UNCHANGED <<dbVars, calls>>

\* The rows of the other contacts, and their logs, are as they were.
C27_OthersKept(id) ==
    /\ \A o \in DOMAIN contacts \ {id} : o \in DOMAIN contacts' /\ contacts'[o] = contacts[o]
    /\ \A l \in DOMAIN logs : logs[l].ContactID # id => l \in DOMAIN logs' /\ logs'[l] = logs[l]

\* The bump entries of a contact after the step.
C27_BumpLogsAfter(id) ==
    {l \in DOMAIN logs' : logs'[l].ContactID = id /\ logs'[l].InteractionType = "bump"}

\* The key after the confirmation opened: y runs the operation once, on the
\* stored id; another key runs nothing; both leave the mode and clear the id.
C27_Answers ==
    /\ \A f \in CommitFailures :
          BumpConfirmYes(f)
          => /\ calls' = calls + 1
             /\ C27_OthersKept(m.bumpContactID)
             /\ IF f = "none"
                THEN /\ contacts'[m.bumpContactID].BumpCount
                          = contacts[m.bumpContactID].BumpCount + 1
                     /\ Cardinality(C27_BumpLogsAfter(m.bumpContactID))
                          = Cardinality(BumpLogs(m.bumpContactID)) + 1
                ELSE UNCHANGED <<contacts, logs>>
    /\ \A f \in CommitFailures :
          DeleteConfirmYes(f)
          => /\ calls' = calls + 1
             /\ C27_OthersKept(m.deleteContactID)
             /\ IF f = "none"
                THEN m.deleteContactID \notin DOMAIN contacts'
                ELSE UNCHANGED <<contacts, logs>>
    /\ BumpConfirmCancel \/ DeleteConfirmCancel => UNCHANGED <<dbVars, calls>>
    /\ m.bumpConfirmMode /\ keys' # keys
       => ~m'.bumpConfirmMode /\ m'.bumpContactID = 0
    /\ m.deleteConfirmMode /\ keys' # keys
       => ~m'.deleteConfirmMode /\ m'.deleteContactID = 0

\* A bump or a deletion of a contact happens in no other step of the TUI.
C27_OnlyConfirmed ==
    /\ (\E id \in DOMAIN contacts :
          id \in DOMAIN contacts' /\ contacts'[id].BumpCount # contacts[id].BumpCount)
       => m.bumpConfirmMode
    /\ DOMAIN contacts \ DOMAIN contacts' # {} => m.deleteConfirmMode

\* C27: in the TUI "b" and "D" only open a confirmation holding the id of the
\* selected contact; the next key, if y or Y, runs BumpContact (DeleteContact)
\* exactly once on that id and on no other contact, and any other key leaves
\* storage unchanged; either way the confirmation mode is left and its id is
\* cleared; no other step bumps or deletes a contact.
C27_Confirmation == [][C27_Opens /\ C27_Answers /\ C27_OnlyConfirmed]_vars

\* One contact has been bumped and another deleted, each after its
\* confirmation, and no confirmation is open.
C27_Witness ==
    /\ ~m.bumpConfirmMode /\ m.bumpContactID = 0
    /\ ~m.deleteConfirmMode /\ m.deleteContactID = 0
    /\ \E id \in DOMAIN contacts : contacts[id].BumpCount = 1 /\ BumpLogs(id) # {}
    /\ Cardinality(DOMAIN contacts) = 1
    /\ nextContactID = 3
    /\ calls = 2
\* C28: between two key events the contact list the TUI holds (and so the
\* overdue flags computed from it) is the contacts table as ListContacts
\* returns it.
C28_ListIsStored == m.contacts = ListContacts(contacts)
\* C30: between two key events the selection index is within the filtered
\* contact list: 0 when the list is empty, and otherwise at least 0 and less
\* than its length.
C30_SelectionInBounds ==
    LET n == Len(filteredContacts(m))
    IN IF n = 0 THEN m.selected = 0 ELSE 0 <= m.selected /\ m.selected < n
====
